---- MODULE Spec2Model ----
(***************************************************************************)
(* Model of the local authentication-state subsystem of the passkey        *)
(* package: the SessionManager (session/session-manager.ts) with its two   *)
(* expiration clocks, its two one-shot timers and the persisted session    *)
(* record.                                                                 *)
(*                                                                         *)
(* Time is counted in minutes: the source works in milliseconds, and every *)
(* duration it configures by default is a whole number of minutes.         *)
(* A one-shot timer is modelled by the set holding its due time (empty     *)
(* when the handle is undefined); setTimeout only promises a minimum       *)
(* delay, so a pending timer may fire at any time at or after its due      *)
(* time.                                                                   *)
(***************************************************************************)
EXTENDS Integers, FiniteSets, Sequences, TLC

DEFAULT_MAX_SESSION_DURATION == 30

DEFAULT_INACTIVITY_TIMEOUT == 5

\* Last instant of the modelled clock.
MaxTime == 32

\* Credential identifiers handed to startSession.
Credentials == {"cred-1", "cred-2"}

VARIABLES
    now,              \* Date.now()
    stored,           \* value under SESSION_KEY: {} (absent) or {StoredSession}
    sessionTimer,     \* this.sessionTimer: {} (undefined) or {due time}
    inactivityTimer,  \* this.inactivityTimer: {} (undefined) or {due time}
    ev,               \* the last operation: its inputs, result and callback
    scenario,         \* progress of the caller through the 0/4/8/31 script
    credentials,      \* value under CREDENTIALS_KEY: the ordered collection
    activeCredentialId, \* value under ACTIVE_CREDENTIAL_KEY: {} or {id}
    cev,              \* the last CredentialStore call: inputs and result
    task,             \* the CredentialStore calls in flight, per caller
    inner,            \* the store wrapped by EncryptedStorageAdapter, per key
    provider,         \* what the secretProvider returns now, or Unavailable
    eev,              \* the last EncryptedStorageAdapter call
    call,             \* the SessionManager calls in flight, per caller
    firing,           \* the timer callbacks in flight, per timer
    obs,              \* what the callers of the SessionManager have observed
    initialized,      \* this.initialized of the PasskeyService
    sev               \* the last PasskeyService call: inputs and result

vars == <<now, stored, sessionTimer, inactivityTimer, ev, scenario,
          credentials, activeCredentialId, cev, task, inner, provider, eev,
          call, firing, obs, initialized, sev>>

\* The SessionManager's part of the state.
sessionVars == <<now, stored, sessionTimer, inactivityTimer, ev, scenario>>

\* The CredentialStore's part of the state.
credVars == <<credentials, activeCredentialId, cev, task>>

\* The EncryptedStorageAdapter's part of the state.
encVars == <<inner, provider, eev>>

\* The part of the state of the SessionManager calls suspended on storage.
asyncVars == <<call, firing, obs>>

\* The PasskeyService's own part of the state.
serviceVars == <<initialized, sev>>

\* What the SessionManager calls split at their suspension points leave
\* alone.
others == <<ev, scenario, credVars, encVars, serviceVars>>

\* this.config as built by the constructor from the defaults.
config ==
    [maxSessionDuration |-> DEFAULT_MAX_SESSION_DURATION,
     inactivityTimeout |-> DEFAULT_INACTIVITY_TIMEOUT]

\* Variant: the absolute deadline is computed from the inactivity timeout.
NewSession_InactivityExpiry(credentialId, t) ==
    [createdAt |-> t,
     expiresAt |-> t + config.inactivityTimeout,
     lastActivity |-> t,
     activeCredentialId |-> credentialId]

\* The StoredSession literal built by startSession.
NewSession(credentialId, t) ==
    [createdAt |-> t,
     expiresAt |-> t + config.maxSessionDuration,
     lastActivity |-> t,
     activeCredentialId |-> credentialId]

toSessionState(session) ==
    [isAuthenticated |-> TRUE,
     expiresAt |-> session.expiresAt,
     activeCredentialId |-> session.activeCredentialId,
     lastActivity |-> session.lastActivity]

\* Variant: the inactivity deadline is inclusive (>= instead of >).
getSessionOutcome_InclusiveInactivity(session, t) ==
    IF t > session.expiresAt THEN "expired"
    ELSE IF t >= session.lastActivity + config.inactivityTimeout THEN "inactivity"
    ELSE "valid"

\* Variant: the inactivity deadline is checked before the absolute one.
getSessionOutcome_InactivityFirst(session, t) ==
    IF t > session.lastActivity + config.inactivityTimeout THEN "inactivity"
    ELSE IF t > session.expiresAt THEN "expired"
    ELSE "valid"

\* Variant: the inactivity deadline is not checked on read.
getSessionOutcome_NoInactivityCheck(session, t) ==
    IF t > session.expiresAt THEN "expired" ELSE "valid"

\* The two deadline checks of getSession, in the order the code makes them.
getSessionOutcome(session, t) ==
    IF t > session.expiresAt THEN "expired"
    ELSE IF t > session.lastActivity + config.inactivityTimeout THEN "inactivity"
    ELSE "valid"

\* Variant: recordActivity never looks at the absolute deadline.
recordActivityOutcome_NoExpiryCheck(session, t) == "valid"

\* The guard of recordActivity: only the absolute deadline is looked at.
recordActivityOutcome(session, t) ==
    IF t > session.expiresAt THEN "expired" ELSE "valid"

\* Variant: recording activity also slides the absolute deadline.
updatedSession_SlidingExpiry(session, t) ==
    [session EXCEPT !.lastActivity = t,
                    !.expiresAt = t + config.maxSessionDuration]

\* Variant: recording activity does not touch lastActivity.
updatedSession_NoTouch(session, t) == session

\* updatedSession of recordActivity: { ...session, lastActivity: now }.
updatedSession(session, t) ==
    [session EXCEPT !.lastActivity = t]

\* The two deadline checks of initialize.
initializeOutcome(session, t) ==
    IF t > session.expiresAt THEN "expired"
    ELSE IF t > session.lastActivity + config.inactivityTimeout THEN "inactivity"
    ELSE "valid"

\* setupSessionTimer: the timer installed (if any) for session at time t.
setupSessionTimer(session, t) ==
    LET timeUntilExpiry == session.expiresAt - t
    IN  IF timeUntilExpiry > 0 THEN {t + timeUntilExpiry} ELSE {}

\* Variant: the inactivity delay is counted from createdAt.
setupInactivityTimer_FromCreation(session, t) ==
    LET timeUntilInactivity ==
            session.createdAt + config.inactivityTimeout - t
    IN  IF timeUntilInactivity > 0 THEN {t + timeUntilInactivity} ELSE {}

\* setupInactivityTimer: the previous handle is cleared; the result is the
\* timer installed (if any), or the cleared-but-still-truthy old handle,
\* which can no longer fire and is modelled as no timer.
setupInactivityTimer(session, t) ==
    LET timeUntilInactivity ==
            session.lastActivity + config.inactivityTimeout - t
    IN  IF timeUntilInactivity > 0 THEN {t + timeUntilInactivity} ELSE {}

NoView == {}

\* Variant: the time remaining is counted from lastActivity.
timeRemaining_FromLastActivity(views, t) ==
    IF views = {} THEN 0
    ELSE LET session == CHOOSE v \in views : TRUE
         IN  IF session.expiresAt = 0 THEN 0
             ELSE IF session.expiresAt - session.lastActivity > 0
                  THEN session.expiresAt - session.lastActivity ELSE 0

\* getTimeRemaining after its getSession() call returned views at time t:
\* 0 for null or a falsy expiresAt, else Math.max(0, expiresAt - Date.now()).
timeRemaining(views, t) ==
    IF views = {} THEN 0
    ELSE LET session == CHOOSE v \in views : TRUE
         IN  IF session.expiresAt = 0 THEN 0
             ELSE IF session.expiresAt - t > 0 THEN session.expiresAt - t ELSE 0

\* isAuthenticated after its getSession() call returned views.
authenticated(views) ==
    views # {} /\ \A v \in views : v.isAuthenticated

\* What each public read returns from the result of getSession().
ReadResult(op, views, t) ==
    IF op = "getSession" THEN views
    ELSE IF op = "isAuthenticated" THEN {authenticated(views)}
    ELSE {timeRemaining(views, t)}

Event(op, result, reason) ==
    [op |-> op, at |-> now, pre |-> stored,
     preSessionTimer |-> sessionTimer, preInactivityTimer |-> inactivityTimer,
     result |-> result, reason |-> reason]

TickEvent(t) ==
    [op |-> "tick", at |-> t, pre |-> {},
     preSessionTimer |-> {}, preInactivityTimer |-> {},
     result |-> NoView, reason |-> "none"]

\* Callers that may have a CredentialStore call in flight.
Tasks == {"caller-1", "caller-2"}

\* User labels of the credentials handed to saveCredential.
CredentialNames == {"Original", "Updated"}

\* A caller with no call in flight.
IdleTask ==
    [op |-> "idle", pc |-> "idle", status |-> "idle", id |-> "",
     arg |-> {}, read |-> <<>>, dropped |-> {}, result |-> {}]

\* Before the first CredentialStore call.
NoCredEvent ==
    [op |-> "none", id |-> "", arg |-> {}, preCredentials |-> <<>>,
     prePointer |-> {}, result |-> {}]

\* Keys of the wrapped store that the model tells apart.
Keys == {"key-1"}

\* Secrets the secretProvider may return.
Secrets == {"secret-1", "secret-2"}

\* The secretProvider throws or rejects.
Unavailable == "unavailable"

\* The JavaScript value null.
Null == [kind |-> "null"]

\* Before the first EncryptedStorageAdapter call.
\* How often a call invoked the secretProvider, drew a salt and an iv, and
\* called each operation of the wrapped store: here, not at all.
NoCalls ==
    [secretProvider |-> 0, salt |-> 0, iv |-> 0,
     get |-> 0, set |-> 0, remove |-> 0, clear |-> 0]

NoEncEvent ==
    [op |-> "none", key |-> "", value |-> {}, secret |-> "secret-1",
     result |-> Null, thrown |-> "none", calls |-> NoCalls]

\* The two one-shot timers of the SessionManager, by the reason they report.
TimerKinds == {"expired", "inactivity"}

\* A caller with no SessionManager call in flight.
IdleCall ==
    [op |-> "idle", pc |-> "idle", session |-> {}, reason |-> "none",
     epoch |-> 0]

\* A timer whose callback is not running.
NotFiring == [pc |-> "idle", epoch |-> 0]

Init ==
    /\ now = 0
    /\ stored = {}
    /\ sessionTimer = {}
    /\ inactivityTimer = {}
    /\ ev = TickEvent(0)
    /\ scenario = "init"
    /\ credentials = <<>>
    /\ activeCredentialId = {}
    /\ cev = NoCredEvent
    /\ task = [t \in Tasks |-> IdleTask]
    /\ inner = [k \in Keys |-> {}]
    /\ provider = "secret-1"
    /\ eev = NoEncEvent
    /\ call = [t \in Tasks |-> IdleCall]
    /\ firing = [kind \in TimerKinds |-> NotFiring]
    /\ obs = [starts |-> 0, notified |-> 0, ended |-> FALSE,
              undisturbed |-> FALSE, current |-> {}]
    /\ initialized = FALSE
    /\ sev = [op |-> "none", id |-> "", result |-> {}]

\* Variant: endSession cancels the timers but leaves the record in storage.
EndSessionEffect_NoRemove ==
    /\ sessionTimer' = {}
    /\ inactivityTimer' = {}
    /\ UNCHANGED stored

\* endSession as called from every path: clearTimers, then storage.remove.
EndSessionEffect ==
    /\ sessionTimer' = {}
    /\ inactivityTimer' = {}
    /\ stored' = {}

StartSession(credentialId) ==
    LET session == NewSession(credentialId, now)
    IN  /\ stored' = {session}
        /\ sessionTimer' = setupSessionTimer(session, now)
        /\ inactivityTimer' = setupInactivityTimer(session, now)
        /\ ev' = Event("startSession", {toSessionState(session)}, "none")
        /\ scenario' = IF scenario = "init" /\ now = 0 THEN "started" ELSE "off"
        /\ UNCHANGED <<now, credVars, encVars, asyncVars, serviceVars>>

\* Variant: an explicit endSession also notifies the expiration callback.
EndSession_WithCallback ==
    /\ EndSessionEffect
    /\ ev' = Event("endSession", NoView, "expired")
    /\ scenario' = "off"
    /\ UNCHANGED <<now, credVars, encVars, asyncVars, serviceVars>>

EndSession ==
    /\ EndSessionEffect
    /\ ev' = Event("endSession", NoView, "none")
    /\ scenario' = "off"
    /\ UNCHANGED <<now, credVars, encVars, asyncVars, serviceVars>>

GetSessionScenario ==
    IF scenario = "active4" /\ now = 8 THEN "checked8"
    ELSE IF scenario = "checked8" /\ now = 31 THEN "checked31"
    ELSE "off"

\* Variant: a valid read also slides the inactivity window.
GetSessionCall_Sliding(op) ==
    IF stored = {}
    THEN /\ ev' = Event(op, ReadResult(op, NoView, now), "none")
         /\ UNCHANGED <<stored, sessionTimer, inactivityTimer>>
    ELSE LET session == CHOOSE s \in stored : TRUE
             outcome == getSessionOutcome(session, now)
         IN  IF outcome = "valid"
             THEN /\ ev' = Event(op, ReadResult(op, {toSessionState(session)}, now), "none")
                  /\ stored' = {updatedSession(session, now)}
                  /\ UNCHANGED <<sessionTimer, inactivityTimer>>
             ELSE /\ EndSessionEffect
                  /\ ev' = Event(op, ReadResult(op, NoView, now), outcome)

\* The body of getSession, as run by getSession itself and by the two
\* reads that start with `await this.getSession()`.
GetSessionCall(op) ==
    IF stored = {}
    THEN /\ ev' = Event(op, ReadResult(op, NoView, now), "none")
         /\ UNCHANGED <<stored, sessionTimer, inactivityTimer>>
    ELSE LET session == CHOOSE s \in stored : TRUE
             outcome == getSessionOutcome(session, now)
         IN  IF outcome = "valid"
             THEN /\ ev' = Event(op, ReadResult(op, {toSessionState(session)}, now), "none")
                  /\ UNCHANGED <<stored, sessionTimer, inactivityTimer>>
             ELSE /\ EndSessionEffect
                  /\ ev' = Event(op, ReadResult(op, NoView, now), outcome)

GetSession ==
    /\ GetSessionCall("getSession")
    /\ scenario' = GetSessionScenario
    /\ UNCHANGED <<now, credVars, encVars, asyncVars, serviceVars>>

IsAuthenticated ==
    /\ GetSessionCall("isAuthenticated")
    /\ scenario' = "off"
    /\ UNCHANGED <<now, credVars, encVars, asyncVars, serviceVars>>

GetTimeRemaining ==
    /\ GetSessionCall("getTimeRemaining")
    /\ scenario' = "off"
    /\ UNCHANGED <<now, credVars, encVars, asyncVars, serviceVars>>

RecordActivity ==
    /\ IF stored = {}
       THEN /\ ev' = Event("recordActivity", NoView, "none")
            /\ UNCHANGED <<stored, sessionTimer, inactivityTimer>>
       ELSE LET session == CHOOSE s \in stored : TRUE
            IN  IF recordActivityOutcome(session, now) = "expired"
                THEN /\ EndSessionEffect
                     /\ ev' = Event("recordActivity", NoView, "expired")
                ELSE /\ stored' = {updatedSession(session, now)}
                     /\ inactivityTimer' =
                            setupInactivityTimer(updatedSession(session, now), now)
                     /\ ev' = Event("recordActivity", NoView, "none")
                     /\ UNCHANGED sessionTimer
    /\ scenario' = IF scenario = "started" /\ now = 4 THEN "active4" ELSE "off"
    /\ UNCHANGED <<now, credVars, encVars, asyncVars, serviceVars>>

Initialize ==
    /\ IF stored = {}
       THEN /\ ev' = Event("initialize", NoView, "none")
            /\ UNCHANGED <<stored, sessionTimer, inactivityTimer>>
       ELSE LET session == CHOOSE s \in stored : TRUE
            IN  IF initializeOutcome(session, now) = "valid"
                THEN /\ sessionTimer' = setupSessionTimer(session, now)
                     /\ inactivityTimer' = setupInactivityTimer(session, now)
                     /\ ev' = Event("initialize", {toSessionState(session)}, "none")
                     /\ UNCHANGED stored
                ELSE /\ EndSessionEffect
                     /\ ev' = Event("initialize", NoView, "none")
    /\ scenario' = "off"
    /\ UNCHANGED <<now, credVars, encVars, asyncVars, serviceVars>>

\* Variant: destroy ends the session, removing the persisted record.
Destroy_RemovesRecord ==
    /\ EndSessionEffect
    /\ ev' = Event("destroy", NoView, "none")
    /\ scenario' = "off"
    /\ UNCHANGED <<now, credVars, encVars, asyncVars, serviceVars>>

Destroy ==
    /\ sessionTimer' = {}
    /\ inactivityTimer' = {}
    /\ ev' = Event("destroy", NoView, "none")
    /\ scenario' = "off"
    /\ UNCHANGED <<now, stored, credVars, encVars, asyncVars, serviceVars>>

\* The callback handed to setTimeout by setupSessionTimer.
SessionTimerFires ==
    /\ \E due \in sessionTimer : now >= due
    /\ EndSessionEffect
    /\ ev' = Event("sessionTimer", NoView, "expired")
    /\ UNCHANGED <<now, scenario, credVars, encVars, asyncVars, serviceVars>>

\* The callback handed to setTimeout by setupInactivityTimer.
InactivityTimerFires ==
    /\ \E due \in inactivityTimer : now >= due
    /\ EndSessionEffect
    /\ ev' = Event("inactivityTimer", NoView, "inactivity")
    /\ UNCHANGED <<now, scenario, credVars, encVars, asyncVars, serviceVars>>

\* The wall clock advances by one minute.
Tick ==
    /\ now < MaxTime
    /\ now' = now + 1
    /\ ev' = TickEvent(now + 1)
    /\ UNCHANGED <<stored, sessionTimer, inactivityTimer, scenario, credVars, encVars, asyncVars, serviceVars>>

Next ==
    \/ \E credentialId \in Credentials : StartSession(credentialId)
    \/ EndSession
    \/ GetSession
    \/ IsAuthenticated
    \/ GetTimeRemaining
    \/ RecordActivity
    \/ Initialize
    \/ Destroy
    \/ SessionTimerFires
    \/ InactivityTimerFires
    \/ Tick

Spec == Init /\ [][Next]_vars

----
(***************************************************************************)
(* CredentialStore (storage/credential-store.ts): the ordered collection   *)
(* of credentials under CREDENTIALS_KEY and the active pointer under       *)
(* ACTIVE_CREDENTIAL_KEY.  A credential is its id and its user label.      *)
(***************************************************************************)

Credential(id, name) == [id |-> id, name |-> name]

\* The ids of a collection.
Ids(creds) == {creds[i].id : i \in 1..Len(creds)}

\* credentials.findIndex(c => c.id === id), 1-based; 0 when absent.
findIndex(creds, id) ==
    IF id \in Ids(creds)
    THEN CHOOSE i \in 1..Len(creds) :
            /\ creds[i].id = id
            /\ \A j \in 1..(i - 1) : creds[j].id # id
    ELSE 0

\* Variant: saveCredential always pushes.
upsert_AlwaysAppend(creds, credential) == Append(creds, credential)

\* saveCredential on the collection it read: replace in place or push.
upsert(creds, credential) ==
    LET existingIndex == findIndex(creds, credential.id)
    IN  IF existingIndex >= 1
        THEN [creds EXCEPT ![existingIndex] = credential]
        ELSE Append(creds, credential)

KeepsId(c, id) == c.id # id

\* Variant: the filter drops the oldest entry whatever its id.
filtered_DropsFirst(creds, id) ==
    IF creds = <<>> THEN creds ELSE Tail(creds)

\* credentials.filter(c => c.id !== id).
filtered(creds, id) ==
    LET keep(c) == KeepsId(c, id) IN SelectSeq(creds, keep)

\* getCredential: credentials.find(c => c.id === id) ?? null.
getCredential(creds, id) ==
    IF findIndex(creds, id) = 0 THEN {} ELSE {creds[findIndex(creds, id)]}

\* Variant: removeCredential leaves the active pointer alone.
pointerAfterRemove_Keep(activeId, id) == activeId

\* The follow-up of removeCredential: clear the pointer if it equals id.
pointerAfterRemove(activeId, id) ==
    IF activeId = {id} THEN {} ELSE activeId

\* Variant: clearAllCredentials removes the collection only.
pointerAfterClearAll_Keep(activeId) == activeId

\* clearAllCredentials ends with clearActiveCredential().
pointerAfterClearAll(activeId) == {}

\* hasCredentials: credentials.length > 0.
hasCredentials(creds) == Len(creds) > 0

\* Variant: getActiveCredential falls back to the first credential.
getActiveCredential_FirstEntry(creds, activeId) ==
    IF activeId = {} \/ creds = <<>> THEN {} ELSE {creds[1]}

\* getActiveCredential: null without a pointer, else getCredential(id).
getActiveCredential(creds, activeId) ==
    IF activeId = {} THEN {}
    ELSE getCredential(creds, CHOOSE id \in activeId : TRUE)

CredEvent(op, id, result) ==
    [op |-> op, id |-> id, arg |-> {}, preCredentials |-> credentials,
     prePointer |-> activeCredentialId, result |-> result]

SaveCredential(credential) ==
    /\ credentials' = upsert(credentials, credential)
    /\ cev' = [CredEvent("saveCredential", credential.id, {})
                  EXCEPT !.arg = {credential}]
    /\ UNCHANGED <<activeCredentialId, task, sessionVars, encVars, asyncVars, serviceVars>>

RemoveCredential(id) ==
    IF Len(filtered(credentials, id)) = Len(credentials)
    THEN /\ cev' = CredEvent("removeCredential", id, {FALSE})
         /\ UNCHANGED <<credentials, activeCredentialId, task, sessionVars, encVars, asyncVars, serviceVars>>
    ELSE /\ credentials' = filtered(credentials, id)
         /\ activeCredentialId' = pointerAfterRemove(activeCredentialId, id)
         /\ cev' = CredEvent("removeCredential", id, {TRUE})
         /\ UNCHANGED <<task, sessionVars, encVars, asyncVars, serviceVars>>

SetActiveCredential(id) ==
    /\ activeCredentialId' = {id}
    /\ cev' = CredEvent("setActiveCredential", id, {})
    /\ UNCHANGED <<credentials, task, sessionVars, encVars, asyncVars, serviceVars>>

GetActiveCredentialId ==
    /\ cev' = CredEvent("getActiveCredentialId", "", activeCredentialId)
    /\ UNCHANGED <<credentials, activeCredentialId, task, sessionVars, encVars, asyncVars, serviceVars>>

GetActiveCredential ==
    /\ cev' = CredEvent("getActiveCredential", "",
                        getActiveCredential(credentials, activeCredentialId))
    /\ UNCHANGED <<credentials, activeCredentialId, task, sessionVars, encVars, asyncVars, serviceVars>>

ClearActiveCredential ==
    /\ activeCredentialId' = {}
    /\ cev' = CredEvent("clearActiveCredential", "", {})
    /\ UNCHANGED <<credentials, task, sessionVars, encVars, asyncVars, serviceVars>>

GetAllCredentials ==
    /\ cev' = CredEvent("getAllCredentials", "", {credentials})
    /\ UNCHANGED <<credentials, activeCredentialId, task, sessionVars, encVars, asyncVars, serviceVars>>

HasCredentials ==
    /\ cev' = CredEvent("hasCredentials", "", {hasCredentials(credentials)})
    /\ UNCHANGED <<credentials, activeCredentialId, task, sessionVars, encVars, asyncVars, serviceVars>>

\* Variant: clearAllCredentials clears the pointer and keeps the collection.
ClearAllCredentials_PointerOnly ==
    /\ activeCredentialId' = {}
    /\ cev' = CredEvent("clearAllCredentials", "", {})
    /\ UNCHANGED <<credentials, task, sessionVars, encVars, asyncVars, serviceVars>>

ClearAllCredentials ==
    /\ credentials' = <<>>
    /\ activeCredentialId' = pointerAfterClearAll(activeCredentialId)
    /\ cev' = CredEvent("clearAllCredentials", "", {})
    /\ UNCHANGED <<task, sessionVars, encVars, asyncVars, serviceVars>>

\* CredentialStore calls made one after the other by a single caller.
CredNext ==
    \/ \E id \in Credentials : \E name \in CredentialNames :
            SaveCredential(Credential(id, name))
    \/ \E id \in Credentials : RemoveCredential(id)
    \/ \E id \in Credentials : SetActiveCredential(id)
    \/ GetActiveCredentialId
    \/ GetActiveCredential
    \/ ClearActiveCredential
    \/ ClearAllCredentials
    \/ GetAllCredentials
    \/ HasCredentials

CredSpec == Init /\ [][CredNext]_vars

----
(***************************************************************************)
(* The same CredentialStore with its calls split at their awaits: every    *)
(* storage call is a suspension point at which another caller's call may   *)
(* run, and may reject with an I/O failure that ends the call there.       *)
(***************************************************************************)

\* The caller has no call in flight.
Free(t) == task[t].status \in {"idle", "done", "failed"}

Running(t, op, pc) ==
    /\ task[t].status = "running"
    /\ task[t].op = op
    /\ task[t].pc = pc

Started(op, pc, id, arg) ==
    [op |-> op, pc |-> pc, status |-> "running", id |-> id,
     arg |-> arg, read |-> <<>>, dropped |-> {}, result |-> {}]

\* The ids of other credentials that were persisted when a caller wrote the
\* collection and are not in the collection it wrote.
Dropped(t, written) == (Ids(credentials) \ Ids(written)) \ {task[t].id}

Finished(t, result) ==
    [task[t] EXCEPT !.status = "done", !.pc = "end", !.result = result,
                    !.arg = {}, !.read = <<>>]

\* saveCredential(credential) is called.
BeginSave(t, credential) ==
    /\ Free(t)
    /\ task' = [task EXCEPT ![t] =
                  Started("saveCredential", "save_read", credential.id, {credential})]
    /\ UNCHANGED <<credentials, activeCredentialId, cev, sessionVars, encVars, asyncVars, serviceVars>>

\* await this.getAllCredentials() of saveCredential.
SaveRead(t) ==
    /\ Running(t, "saveCredential", "save_read")
    /\ task' = [task EXCEPT ![t].read = credentials, ![t].pc = "save_write"]
    /\ UNCHANGED <<credentials, activeCredentialId, cev, sessionVars, encVars, asyncVars, serviceVars>>

\* Variant: the write pushes onto the collection persisted by then when the
\* snapshot had no entry of the id.
SaveWrite_StaleDecision(t) ==
    /\ Running(t, "saveCredential", "save_write")
    /\ LET c == CHOOSE x \in task[t].arg : TRUE
       IN  credentials' = IF c.id \in Ids(task[t].read)
                          THEN upsert(credentials, c)
                          ELSE Append(credentials, c)
    /\ task' = [task EXCEPT ![t] =
                  [Finished(t, {}) EXCEPT !.dropped = Dropped(t, credentials')]]
    /\ UNCHANGED <<activeCredentialId, cev, sessionVars, encVars, asyncVars, serviceVars>>

\* Variant: the write merges into the collection persisted by then.
SaveWrite_Merging(t) ==
    /\ Running(t, "saveCredential", "save_write")
    /\ credentials' = upsert(credentials, CHOOSE c \in task[t].arg : TRUE)
    /\ task' = [task EXCEPT ![t] =
                  [Finished(t, {}) EXCEPT !.dropped = Dropped(t, credentials')]]
    /\ UNCHANGED <<activeCredentialId, cev, sessionVars, encVars, asyncVars, serviceVars>>

\* await this.storage.set(CREDENTIALS_KEY, credentials) of saveCredential.
SaveWrite(t) ==
    /\ Running(t, "saveCredential", "save_write")
    /\ credentials' = upsert(task[t].read, CHOOSE c \in task[t].arg : TRUE)
    /\ task' = [task EXCEPT ![t] =
                  [Finished(t, {}) EXCEPT !.dropped = Dropped(t, credentials')]]
    /\ UNCHANGED <<activeCredentialId, cev, sessionVars, encVars, asyncVars, serviceVars>>

\* setActiveCredential(id) is called.
BeginSetActive(t, id) ==
    /\ Free(t)
    /\ task' = [task EXCEPT ![t] =
                  Started("setActiveCredential", "set_write", id, {})]
    /\ UNCHANGED <<credentials, activeCredentialId, cev, sessionVars, encVars, asyncVars, serviceVars>>

\* await this.storage.set(ACTIVE_CREDENTIAL_KEY, id).
SetActiveWrite(t) ==
    /\ Running(t, "setActiveCredential", "set_write")
    /\ activeCredentialId' = {task[t].id}
    /\ task' = [task EXCEPT ![t] = Finished(t, {})]
    /\ UNCHANGED <<credentials, cev, sessionVars, encVars, asyncVars, serviceVars>>

\* removeCredential(id) is called.
BeginRemove(t, id) ==
    /\ Free(t)
    /\ task' = [task EXCEPT ![t] =
                  Started("removeCredential", "rm_read", id, {})]
    /\ UNCHANGED <<credentials, activeCredentialId, cev, sessionVars, encVars, asyncVars, serviceVars>>

\* await this.getAllCredentials() of removeCredential, and the early
\* return false when nothing was filtered out.
RemoveRead(t) ==
    /\ Running(t, "removeCredential", "rm_read")
    /\ IF Len(filtered(credentials, task[t].id)) = Len(credentials)
       THEN task' = [task EXCEPT ![t] = Finished(t, {FALSE})]
       ELSE task' = [task EXCEPT ![t].read = credentials, ![t].pc = "rm_write"]
    /\ UNCHANGED <<credentials, activeCredentialId, cev, sessionVars, encVars, asyncVars, serviceVars>>

\* await this.storage.set(CREDENTIALS_KEY, filtered).
RemoveWrite(t) ==
    /\ Running(t, "removeCredential", "rm_write")
    /\ credentials' = filtered(task[t].read, task[t].id)
    /\ task' = [task EXCEPT ![t].pc = "rm_getActive",
                            ![t].dropped = Dropped(t, credentials')]
    /\ UNCHANGED <<activeCredentialId, cev, sessionVars, encVars, asyncVars, serviceVars>>

\* await this.getActiveCredentialId() and the comparison with id.
RemoveGetActive(t) ==
    /\ Running(t, "removeCredential", "rm_getActive")
    /\ IF pointerAfterRemove(activeCredentialId, task[t].id) # activeCredentialId
       THEN task' = [task EXCEPT ![t].pc = "rm_clear"]
       ELSE task' = [task EXCEPT ![t] = Finished(t, {TRUE})]
    /\ UNCHANGED <<credentials, activeCredentialId, cev, sessionVars, encVars, asyncVars, serviceVars>>

\* await this.clearActiveCredential() of removeCredential.
RemoveClear(t) ==
    /\ Running(t, "removeCredential", "rm_clear")
    /\ activeCredentialId' = {}
    /\ task' = [task EXCEPT ![t] = Finished(t, {TRUE})]
    /\ UNCHANGED <<credentials, cev, sessionVars, encVars, asyncVars, serviceVars>>

\* clearAllCredentials() is called.
BeginClearAll(t) ==
    /\ Free(t)
    /\ task' = [task EXCEPT ![t] =
                  Started("clearAllCredentials", "clr_remove", "", {})]
    /\ UNCHANGED <<credentials, activeCredentialId, cev, sessionVars, encVars, asyncVars, serviceVars>>

\* await this.storage.remove(CREDENTIALS_KEY).
ClearAllRemove(t) ==
    /\ Running(t, "clearAllCredentials", "clr_remove")
    /\ credentials' = <<>>
    /\ task' = [task EXCEPT ![t].pc = "clr_pointer"]
    /\ UNCHANGED <<activeCredentialId, cev, sessionVars, encVars, asyncVars, serviceVars>>

\* await this.clearActiveCredential() of clearAllCredentials.
ClearAllPointer(t) ==
    /\ Running(t, "clearAllCredentials", "clr_pointer")
    /\ activeCredentialId' = {}
    /\ task' = [task EXCEPT ![t] = Finished(t, {})]
    /\ UNCHANGED <<credentials, cev, sessionVars, encVars, asyncVars, serviceVars>>

\* The storage call the caller is suspended on rejects: the failure
\* propagates out of the CredentialStore call, which stops where it was.
StorageFails(t) ==
    /\ task[t].status = "running"
    /\ task' = [task EXCEPT ![t].status = "failed",
                            ![t].arg = {}, ![t].read = <<>>]
    /\ UNCHANGED <<credentials, activeCredentialId, cev, sessionVars, encVars, asyncVars, serviceVars>>

CredAsyncNext ==
    \E t \in Tasks :
        \/ \E id \in Credentials : \E name \in CredentialNames :
                BeginSave(t, Credential(id, name))
        \/ SaveRead(t)
        \/ SaveWrite(t)
        \/ \E id \in Credentials : BeginSetActive(t, id)
        \/ SetActiveWrite(t)
        \/ \E id \in Credentials : BeginRemove(t, id)
        \/ RemoveRead(t)
        \/ RemoveWrite(t)
        \/ RemoveGetActive(t)
        \/ RemoveClear(t)
        \/ BeginClearAll(t)
        \/ ClearAllRemove(t)
        \/ ClearAllPointer(t)
        \/ StorageFails(t)

CredAsyncSpec == Init /\ [][CredAsyncNext]_vars

----
(***************************************************************************)
(* EncryptedStorageAdapter (storage/encrypted-storage.ts) over a wrapped   *)
(* key/value store, with the WebCryptoAdapter.  A value is serialised by   *)
(* JSON.stringify to a text (here a sequence of tokens), encoded to bytes, *)
(* sealed by AES-GCM under a key derived from the secret and a fresh salt, *)
(* and stored as base64 texts; get undoes each layer in turn, and each     *)
(* layer may fail.  A partial result is the set holding the result, empty  *)
(* when the step throws.                                                   *)
(***************************************************************************)

PBKDF2_ITERATIONS == 100000

SALT_LENGTH == 16

IV_LENGTH == 12

KEY_LENGTH == 256

\* Outcomes of one crypto.getRandomValues call that the model tells apart.
RandomDraws == {1, 2}

The(S) == CHOOSE x \in S : TRUE

\* JavaScript values handed to set: undefined, null, numbers (NaN among
\* them), strings, and objects with one property "data" (undefined when the
\* property is missing or holds undefined).
Undefined == [kind |-> "undefined"]

Num(repr) == [kind |-> "number", repr |-> repr]

Str(chars) == [kind |-> "string", chars |-> chars]

Obj(data) == [kind |-> "object", data |-> data]

Numerals == {"1"}

Primitives == {Null, Num("1"), Num("NaN"), Str("a")}

Values == {Undefined} \cup Primitives \cup {Obj(Num("1")), Obj(Undefined)}

\* JSON.stringify of a primitive: NaN is written as null.
stringifyPrimitive(v) ==
    IF v.kind = "null" THEN <<"null">>
    ELSE IF v.kind = "number"
         THEN (IF v.repr \in Numerals THEN <<v.repr>> ELSE <<"null">>)
         ELSE <<"\"", v.chars, "\"">>

\* JSON.stringify(value): undefined (no text) for undefined; a property
\* holding undefined is left out.
stringify(v) ==
    IF v.kind = "undefined" THEN {}
    ELSE IF v.kind = "object"
         THEN {<<"{">> \o (IF v.data.kind = "undefined" THEN <<>>
                           ELSE <<"data", ":">> \o stringifyPrimitive(v.data))
                      \o <<"}">>}
         ELSE {stringifyPrimitive(v)}

parsePrimitive(text) ==
    IF text = <<"null">> THEN {Null}
    ELSE IF Len(text) = 1 /\ text[1] \in Numerals THEN {Num(text[1])}
    ELSE IF Len(text) = 3 /\ text[1] = "\"" /\ text[3] = "\""
         THEN {Str(text[2])}
         ELSE {}

\* JSON.parse(json): throws SyntaxError on anything that is not a JSON text.
parse(text) ==
    IF Len(text) >= 2 /\ text[1] = "{" /\ text[Len(text)] = "}"
    THEN IF Len(text) = 2 THEN {Obj(Undefined)}
         ELSE IF Len(text) >= 5 /\ text[2] = "data" /\ text[3] = ":"
              THEN {Obj(d) : d \in parsePrimitive(SubSeq(text, 4, Len(text) - 1))}
              ELSE {}
    ELSE parsePrimitive(text)

\* new TextEncoder().encode(str); encode(undefined) is the empty array.
stringToUint8Array(str) ==
    IF str = {} THEN <<>>
    ELSE LET text == The(str)
         IN  [i \in 1..Len(text) |-> [utf8 |-> text[i]]]

\* new TextDecoder().decode(bytes).
uint8ArrayToString(bytes) == [i \in 1..Len(bytes) |-> bytes[i].utf8]

\* btoa over the bytes.
uint8ArrayToBase64(bytes) == [valid |-> TRUE, bytes |-> bytes]

\* atob: throws on a text that is not base64.
base64ToUint8Array(base64) ==
    IF base64.valid THEN {base64.bytes} ELSE {}

\* A text that is not base64.
MalformedBase64 == [valid |-> FALSE, bytes |-> <<>>]

\* A record some other writer left in the wrapped store.
MalformedRecord ==
    [ciphertext |-> MalformedBase64, iv |-> MalformedBase64,
     salt |-> MalformedBase64]

\* crypto.getRandomValues on a fresh array of the given length.
generateRandomBytes(length) ==
    {<<[random |-> r, length |-> length]>> : r \in RandomDraws}

\* Variant: the key does not depend on the password.
deriveKey_IgnoresPassword(password, salt) ==
    [password |-> "", salt |-> salt,
     iterations |-> PBKDF2_ITERATIONS, length |-> KEY_LENGTH]

\* PBKDF2-SHA-256 of the password and the salt: equal keys only from equal
\* passwords and salts.
deriveKey(password, salt) ==
    [password |-> password, salt |-> salt,
     iterations |-> PBKDF2_ITERATIONS, length |-> KEY_LENGTH]

\* crypto.subtle.encrypt with AES-GCM: the ciphertext with its tag.
aesGcmEncrypt(key, iv, data) == <<[key |-> key, iv |-> iv, data |-> data]>>

\* crypto.subtle.decrypt with AES-GCM: the tag verifies only under the key
\* and iv the data was sealed with; it throws otherwise.
aesGcmDecrypt(key, iv, ciphertext) ==
    IF /\ Len(ciphertext) = 1
       /\ ciphertext[1].key = key
       /\ ciphertext[1].iv = iv
    THEN {ciphertext[1].data}
    ELSE {}

\* Variant: the salt is stored in the iv field and the iv in the salt field.
encrypt_SwappedFields(data, secret, salt, iv) ==
    [ciphertext |-> uint8ArrayToBase64(
                        aesGcmEncrypt(deriveKey(secret, salt), iv, data)),
     iv |-> uint8ArrayToBase64(salt),
     salt |-> uint8ArrayToBase64(iv)]

\* WebCryptoAdapter.encrypt with the salt and iv it drew.
encrypt(data, secret, salt, iv) ==
    [ciphertext |-> uint8ArrayToBase64(
                        aesGcmEncrypt(deriveKey(secret, salt), iv, data)),
     iv |-> uint8ArrayToBase64(iv),
     salt |-> uint8ArrayToBase64(salt)]

\* WebCryptoAdapter.decrypt.
decrypt(encrypted, secret) ==
    LET salt == base64ToUint8Array(encrypted.salt)
        iv == base64ToUint8Array(encrypted.iv)
        ciphertext == base64ToUint8Array(encrypted.ciphertext)
    IN  IF salt = {} \/ iv = {} \/ ciphertext = {} THEN {}
        ELSE aesGcmDecrypt(deriveKey(secret, The(salt)), The(iv),
                           The(ciphertext))

\* The try block of get: secretProvider, decrypt, decode, JSON.parse.
decryptAndParse(encrypted, secret) ==
    IF secret = Unavailable THEN {}
    ELSE LET decrypted == decrypt(encrypted, secret)
         IN  IF decrypted = {} THEN {}
             ELSE parse(uint8ArrayToString(The(decrypted)))

\* Variant: no catch around the try block.
caught_Rethrow(attempt) ==
    IF attempt = {} THEN [value |-> Null, thrown |-> "decryption"]
    ELSE [value |-> The(attempt), thrown |-> "none"]

\* try { ... } catch { return null }.
caught(attempt) ==
    IF attempt = {} THEN [value |-> Null, thrown |-> "none"]
    ELSE [value |-> The(attempt), thrown |-> "none"]

\* get once the wrapped store answered with found.
getOutcome(found, secret) ==
    IF found = {} THEN [value |-> Null, thrown |-> "none"]
    ELSE caught(decryptAndParse(The(found), secret))

EncEvent(op, key, value, result, thrown) ==
    [op |-> op, key |-> key, value |-> value, secret |-> provider,
     result |-> result, thrown |-> thrown, calls |-> NoCalls]

\* Variant: get asks for the secret before it looks at what it read.
secretProviderCallsOfGet_Always(found) == 1

\* get invokes the secretProvider only past `if (!encrypted) return null`.
secretProviderCallsOfGet(found) == IF found = {} THEN 0 ELSE 1

\* get(key); io: the wrapped store's get rejects.
EncGet(key) ==
    /\ \E io \in BOOLEAN :
          LET outcome == IF io THEN [value |-> Null, thrown |-> "io"]
                         ELSE getOutcome(inner[key], provider)
              n == IF io THEN 0 ELSE secretProviderCallsOfGet(inner[key])
          IN  eev' = [EncEvent("get", key, {}, outcome.value, outcome.thrown)
                        EXCEPT !.calls.get = 1, !.calls.secretProvider = n]
    /\ UNCHANGED <<inner, provider, sessionVars, credVars, asyncVars, serviceVars>>

\* set(key, value); io: the wrapped store's set rejects.  Nothing in set
\* catches: a secretProvider that throws ends the call with its exception.
EncSet(key, value) ==
    /\ IF provider = Unavailable
       THEN /\ eev' = [EncEvent("set", key, {value}, Undefined,
                                "secret-provider")
                          EXCEPT !.calls.secretProvider = 1]
            /\ UNCHANGED inner
       ELSE \E salt \in generateRandomBytes(SALT_LENGTH) :
            \E iv \in generateRandomBytes(IV_LENGTH) :
            \E io \in BOOLEAN :
               LET data == stringToUint8Array(stringify(value))
                   encrypted == encrypt(data, provider, salt, iv)
                   calls == [NoCalls EXCEPT !.secretProvider = 1, !.salt = 1,
                                            !.iv = 1, !.set = 1]
               IN  IF io
                   THEN /\ eev' = [EncEvent("set", key, {value}, Undefined, "io")
                                      EXCEPT !.calls = calls]
                        /\ UNCHANGED inner
                   ELSE /\ inner' = [inner EXCEPT ![key] = {encrypted}]
                        /\ eev' = [EncEvent("set", key, {value}, Undefined,
                                            "none")
                                      EXCEPT !.calls = calls]
    /\ UNCHANGED <<provider, sessionVars, credVars, asyncVars, serviceVars>>

\* remove(key) passes through.
EncRemove(key) ==
    /\ \E io \in BOOLEAN :
          IF io
          THEN /\ eev' = [EncEvent("remove", key, {}, Undefined, "io")
                             EXCEPT !.calls.remove = 1]
               /\ UNCHANGED inner
          ELSE /\ inner' = [inner EXCEPT ![key] = {}]
               /\ eev' = [EncEvent("remove", key, {}, Undefined, "none")
                             EXCEPT !.calls.remove = 1]
    /\ UNCHANGED <<provider, sessionVars, credVars, asyncVars, serviceVars>>

\* clear() passes through.
EncClear ==
    /\ \E io \in BOOLEAN :
          IF io
          THEN /\ eev' = [EncEvent("clear", "", {}, Undefined, "io")
                             EXCEPT !.calls.clear = 1]
               /\ UNCHANGED inner
          ELSE /\ inner' = [k \in Keys |-> {}]
               /\ eev' = [EncEvent("clear", "", {}, Undefined, "none")
                             EXCEPT !.calls.clear = 1]
    /\ UNCHANGED <<provider, sessionVars, credVars, asyncVars, serviceVars>>

\* The secretProvider starts to return another secret, or to throw.
SecretChanges(secret) ==
    /\ secret # provider
    /\ provider' = secret
    /\ UNCHANGED <<inner, eev, sessionVars, credVars, asyncVars, serviceVars>>

\* Something else writes a record that is not an encrypted one under key.
ForeignWrite(key) ==
    /\ inner' = [inner EXCEPT ![key] = {MalformedRecord}]
    /\ eev' = EncEvent("foreign-write", key, {}, Undefined, "none")
    /\ UNCHANGED <<provider, sessionVars, credVars, asyncVars, serviceVars>>

EncNext ==
    \/ \E key \in Keys : EncGet(key)
    \/ \E key \in Keys : \E value \in Values : EncSet(key, value)
    \/ \E key \in Keys : EncRemove(key)
    \/ EncClear
    \/ \E secret \in Secrets \cup {Unavailable} : SecretChanges(secret)
    \/ \E key \in Keys : ForeignWrite(key)

EncSpec == Init /\ [][EncNext]_vars

----
\* The SessionManager with its calls split at their storage suspension
\* points.  Every await of a storage call gives two steps: the storage
\* operation takes effect, and later the caller resumes; the synchronous
\* code up to the next storage call runs with the step that resumes.  Other
\* callers, the timers and the clock may step in between.

\* The instants the clock visits: the start, and the first instant after
\* each of the two deadlines of a session started at the start.
Instants ==
    {t \in {0, config.inactivityTimeout + 1, config.maxSessionDuration + 1} :
        t <= MaxTime}

At(t, op, pc) == call[t].op = op /\ call[t].pc = pc

StartInFlight == \E t \in Tasks : call[t].op = "startSession"

\* No call and no timer callback is in flight.
Quiescent ==
    /\ \A t \in Tasks : call[t].op = "idle"
    /\ \A kind \in TimerKinds : firing[kind].pc = "idle"

\* 1 when exactly one startSession has been called so far and it has
\* returned, 0 otherwise.
Epoch == IF ~StartInFlight /\ obs.starts = 1 THEN 1 ELSE 0

\* An end of session begins: the session of the last completed
\* startSession, or of the startSession in flight, is no longer expected
\* in storage.
EndBegins == [obs EXCEPT !.current = {}, !.undisturbed = FALSE]

\* An end of session completes.  It is the end of the one session started
\* when exactly one startSession had been called and had completed before
\* the end began, and no startSession has been called since.
EndCompletes(epoch, callbacks) ==
    [obs EXCEPT !.notified = IF obs.starts = 1 /\ @ + callbacks <= 2
                              THEN @ + callbacks
                              ELSE IF obs.starts = 1 THEN 2 ELSE 0,
                !.ended = (epoch = 1 /\ Epoch = 1)]

Suspended(op, pc, session, reason) ==
    [op |-> op, pc |-> pc, session |-> session, reason |-> reason,
     epoch |-> Epoch]

\* startSession(credentialId) is called: the session literal is built from
\* Date.now() and storage.set is issued.
StartSessionCalled(t, credentialId) ==
    /\ call[t].op = "idle"
    /\ call' = [call EXCEPT ![t] =
                  Suspended("startSession", "set",
                            {NewSession(credentialId, now)}, "none")]
    /\ obs' = [obs EXCEPT !.starts = IF @ < 2 THEN @ + 1 ELSE 2,
                          !.notified = IF obs.starts = 0 THEN @ ELSE 0,
                          !.ended = FALSE,
                          !.undisturbed =
                              /\ ~StartInFlight
                              /\ \A u \in Tasks :
                                    /\ call[u].op # "endSession"
                                    /\ call[u].pc \notin {"remove", "notify"}
                              /\ \A kind \in TimerKinds :
                                    firing[kind].pc = "idle",
                          !.current = {}]
    /\ UNCHANGED <<now, stored, sessionTimer, inactivityTimer, firing, others>>

\* storage.set(SESSION_KEY, session) of startSession takes effect.
StartSessionStored(t) ==
    /\ At(t, "startSession", "set")
    /\ stored' = call[t].session
    /\ call' = [call EXCEPT ![t].pc = "timers"]
    /\ UNCHANGED <<now, sessionTimer, inactivityTimer, firing, obs, others>>

\* startSession resumes: setupTimers(session), return.
StartSessionResumed(t) ==
    /\ At(t, "startSession", "timers")
    /\ LET session == CHOOSE s \in call[t].session : TRUE
       IN  /\ sessionTimer' = setupSessionTimer(session, now)
           /\ inactivityTimer' = setupInactivityTimer(session, now)
    /\ call' = [call EXCEPT ![t] = IdleCall]
    /\ obs' = [obs EXCEPT !.undisturbed = FALSE,
                          !.current = IF obs.undisturbed THEN call[t].session
                                      ELSE {}]
    /\ UNCHANGED <<now, stored, firing, others>>

\* endSession() is called: clearTimers, storage.remove is issued.
EndSessionCalled(t) ==
    /\ call[t].op = "idle"
    /\ sessionTimer' = {}
    /\ inactivityTimer' = {}
    /\ call' = [call EXCEPT ![t] = Suspended("endSession", "end_remove", {}, "none")]
    /\ obs' = EndBegins
    /\ UNCHANGED <<now, stored, firing, others>>

\* storage.remove(SESSION_KEY) of endSession takes effect.
EndSessionRemoved(t) ==
    /\ At(t, "endSession", "end_remove")
    /\ stored' = {}
    /\ call' = [call EXCEPT ![t].pc = "end_return"]
    /\ UNCHANGED <<now, sessionTimer, inactivityTimer, firing, obs, others>>

\* endSession resumes and returns.
EndSessionResumed(t) ==
    /\ At(t, "endSession", "end_return")
    /\ call' = [call EXCEPT ![t] = IdleCall]
    /\ obs' = EndCompletes(call[t].epoch, 0)
    /\ UNCHANGED <<now, stored, sessionTimer, inactivityTimer, firing, others>>

\* getSession() or recordActivity() is called and its storage.get takes
\* effect: the record persisted at that moment is what the call will see.
SessionRead(t, op) ==
    /\ call[t].op = "idle"
    /\ call' = [call EXCEPT ![t] = Suspended(op, "check", stored, "none")]
    /\ UNCHANGED <<now, stored, sessionTimer, inactivityTimer, firing, obs, others>>

\* The caller leaves the deadline checks towards endSession: clearTimers,
\* storage.remove is issued.
DeadlinePassed(t, reason) ==
    /\ sessionTimer' = {}
    /\ inactivityTimer' = {}
    /\ call' = [call EXCEPT ![t] =
                  Suspended(call[t].op, "remove", {}, reason)]
    /\ obs' = EndBegins
    /\ UNCHANGED <<now, stored, firing, others>>

\* getSession resumes from storage.get: the two deadline checks against
\* Date.now() as it is by then.
GetSessionResumed(t) ==
    /\ At(t, "getSession", "check")
    /\ IF call[t].session = {}
       THEN /\ call' = [call EXCEPT ![t] = IdleCall]
            /\ UNCHANGED <<now, stored, sessionTimer, inactivityTimer, firing,
                           obs, others>>
       ELSE LET session == CHOOSE s \in call[t].session : TRUE
                outcome == getSessionOutcome(session, now)
            IN  IF outcome = "valid"
                THEN /\ call' = [call EXCEPT ![t] = IdleCall]
                     /\ UNCHANGED <<now, stored, sessionTimer, inactivityTimer,
                                    firing, obs, others>>
                ELSE DeadlinePassed(t, outcome)

\* recordActivity resumes from storage.get: the absolute deadline is
\* checked, updatedSession is built from the record read and storage.set
\* is issued.
RecordActivityResumed(t) ==
    /\ At(t, "recordActivity", "check")
    /\ IF call[t].session = {}
       THEN /\ call' = [call EXCEPT ![t] = IdleCall]
            /\ UNCHANGED <<now, stored, sessionTimer, inactivityTimer, firing,
                           obs, others>>
       ELSE LET session == CHOOSE s \in call[t].session : TRUE
                outcome == recordActivityOutcome(session, now)
            IN  IF outcome = "valid"
                THEN /\ call' = [call EXCEPT ![t] =
                                   Suspended("recordActivity", "set",
                                             {updatedSession(session, now)},
                                             "none")]
                     /\ UNCHANGED <<now, stored, sessionTimer, inactivityTimer,
                                    firing, obs, others>>
                ELSE DeadlinePassed(t, outcome)

\* storage.set(SESSION_KEY, updatedSession) of recordActivity takes effect.
RecordActivityStored(t) ==
    /\ At(t, "recordActivity", "set")
    /\ stored' = call[t].session
    /\ call' = [call EXCEPT ![t].pc = "timer"]
    /\ UNCHANGED <<now, sessionTimer, inactivityTimer, firing, obs, others>>

\* recordActivity resumes: setupInactivityTimer(updatedSession), return.
RecordActivityRearmed(t) ==
    /\ At(t, "recordActivity", "timer")
    /\ LET session == CHOOSE s \in call[t].session : TRUE
       IN  inactivityTimer' = setupInactivityTimer(session, now)
    /\ call' = [call EXCEPT ![t] = IdleCall]
    /\ UNCHANGED <<now, stored, sessionTimer, firing, obs, others>>

\* storage.remove(SESSION_KEY) of the endSession awaited by getSession or
\* recordActivity takes effect.
ExpiryRemoved(t) ==
    /\ call[t].pc = "remove"
    /\ stored' = {}
    /\ call' = [call EXCEPT ![t].pc = "notify"]
    /\ UNCHANGED <<now, sessionTimer, inactivityTimer, firing, obs, others>>

\* getSession or recordActivity resumes from endSession: the expiration
\* callback is invoked and the call returns.
ExpiryNotified(t) ==
    /\ call[t].pc = "notify"
    /\ call' = [call EXCEPT ![t] = IdleCall]
    /\ obs' = EndCompletes(call[t].epoch, 1)
    /\ UNCHANGED <<now, stored, sessionTimer, inactivityTimer, firing, others>>

\* The handle of a timer: {} or {due time}.
TimerOf(kind) == IF kind = "expired" THEN sessionTimer ELSE inactivityTimer

\* A pending timer fires, at or after its due time: its callback calls
\* endSession, which clears both handles and issues storage.remove.
TimerFired(kind) ==
    /\ firing[kind].pc = "idle"
    /\ \E due \in TimerOf(kind) : due <= now
    /\ sessionTimer' = {}
    /\ inactivityTimer' = {}
    /\ firing' = [firing EXCEPT ![kind] = [pc |-> "remove", epoch |-> Epoch]]
    /\ obs' = EndBegins
    /\ UNCHANGED <<now, stored, call, others>>

\* storage.remove(SESSION_KEY) of the timer callback's endSession takes
\* effect.
TimerRemoved(kind) ==
    /\ firing[kind].pc = "remove"
    /\ stored' = {}
    /\ firing' = [firing EXCEPT ![kind].pc = "notify"]
    /\ UNCHANGED <<now, sessionTimer, inactivityTimer, call, obs, others>>

\* The timer callback resumes from endSession and invokes the expiration
\* callback.
TimerNotified(kind) ==
    /\ firing[kind].pc = "notify"
    /\ firing' = [firing EXCEPT ![kind] = NotFiring]
    /\ obs' = EndCompletes(firing[kind].epoch, 1)
    /\ UNCHANGED <<now, stored, sessionTimer, inactivityTimer, call, others>>

\* The wall clock advances to the next instant.  Storage calls take far
\* less than the minutes between two instants: none is in flight.
Advance ==
    /\ Quiescent
    /\ \E t \in Instants : t > now
    /\ now' = CHOOSE t \in Instants : t > now /\ \A u \in Instants : u > now => t <= u
    /\ UNCHANGED <<stored, sessionTimer, inactivityTimer, asyncVars, others>>

SessAsyncNext ==
    \/ \E t \in Tasks :
        \/ \E credentialId \in Credentials : StartSessionCalled(t, credentialId)
        \/ StartSessionStored(t)
        \/ StartSessionResumed(t)
        \/ EndSessionCalled(t)
        \/ EndSessionRemoved(t)
        \/ EndSessionResumed(t)
        \/ SessionRead(t, "getSession")
        \/ SessionRead(t, "recordActivity")
        \/ GetSessionResumed(t)
        \/ RecordActivityResumed(t)
        \/ RecordActivityStored(t)
        \/ RecordActivityRearmed(t)
        \/ ExpiryRemoved(t)
        \/ ExpiryNotified(t)
    \/ \E kind \in TimerKinds :
        \/ TimerFired(kind)
        \/ TimerRemoved(kind)
        \/ TimerNotified(kind)
    \/ Advance

SessAsyncSpec == Init /\ [][SessAsyncNext]_vars

----
\* The PasskeyService: one CredentialStore and one SessionManager over the
\* same storage, the SessionManager's expiration callback bound to
\* handleSessionExpiration.  Each call runs to completion before the next
\* one starts, its follow-up storage calls included.

\* What the PasskeyService calls leave alone.
outside == <<ev, scenario, cev, task, encVars, asyncVars>>

ServiceEvent(op, id, result) == [op |-> op, id |-> id, result |-> result]

\* The credential ids a WebAuthn authentication ceremony can answer with:
\* one of allowCredentials when the collection is not empty, any
\* discoverable credential of the authenticator otherwise.
authenticatePasskey(creds) ==
    IF Len(creds) > 0 THEN Ids(creds) ELSE Credentials

\* The credential ids a WebAuthn registration ceremony can answer with: the
\* authenticator refuses the ids it is asked to exclude.
registerPasskey(creds) == Credentials \ Ids(creds)

\* handleSessionExpiration: clearActiveCredential() is called; its storage
\* write has completed by the time the service is idle again.
handleSessionExpiration == activeCredentialId' = {}

\* sessionManager.getSession() under the service: the record is checked
\* against both deadlines and ended, with the callback, when one has passed.
ServiceGetSessionEffect(op) ==
    IF stored = {}
    THEN /\ sev' = ServiceEvent(op, "", {})
         /\ UNCHANGED <<stored, sessionTimer, inactivityTimer, activeCredentialId>>
    ELSE LET session == CHOOSE s \in stored : TRUE
         IN  IF getSessionOutcome(session, now) = "valid"
             THEN /\ sev' = ServiceEvent(op, "", {toSessionState(session)})
                  /\ UNCHANGED <<stored, sessionTimer, inactivityTimer,
                                 activeCredentialId>>
             ELSE /\ EndSessionEffect
                  /\ handleSessionExpiration
                  /\ sev' = ServiceEvent(op, "", {})

\* PasskeyService.initialize(): the first call goes to
\* sessionManager.initialize(), which restores the timers of a valid record
\* and ends an expired one without invoking the callback; later calls go to
\* getSession().
ServiceInitialize ==
    /\ IF initialized
       THEN ServiceGetSessionEffect("initialize")
       ELSE IF stored = {}
            THEN /\ sev' = ServiceEvent("initialize", "", {})
                 /\ UNCHANGED <<stored, sessionTimer, inactivityTimer,
                                activeCredentialId>>
            ELSE LET session == CHOOSE s \in stored : TRUE
                 IN  IF initializeOutcome(session, now) = "valid"
                     THEN /\ sessionTimer' = setupSessionTimer(session, now)
                          /\ inactivityTimer' = setupInactivityTimer(session, now)
                          /\ sev' = ServiceEvent("initialize", "",
                                                 {toSessionState(session)})
                          /\ UNCHANGED <<stored, activeCredentialId>>
                     ELSE /\ EndSessionEffect
                          /\ sev' = ServiceEvent("initialize", "", {})
                          /\ UNCHANGED activeCredentialId
    /\ initialized' = TRUE
    /\ UNCHANGED <<now, credentials, outside>>

\* PasskeyService.destroy(): the timers are cancelled; the persisted state
\* stays.
ServiceDestroy ==
    /\ sessionTimer' = {}
    /\ inactivityTimer' = {}
    /\ initialized' = FALSE
    /\ sev' = ServiceEvent("destroy", "", {})
    /\ UNCHANGED <<now, stored, credentials, activeCredentialId, outside>>

\* PasskeyService.register(userName): the new credential is saved under
\* the user's name.
Register(id, userName) ==
    /\ id \in registerPasskey(credentials)
    /\ credentials' = upsert(credentials, Credential(id, userName))
    /\ sev' = ServiceEvent("register", id, {})
    /\ UNCHANGED <<now, stored, sessionTimer, inactivityTimer,
                   activeCredentialId, initialized, outside>>

\* PasskeyService.authenticate(): the answering credential becomes the
\* active one, then a session is started for it.
Authenticate(id) ==
    /\ id \in authenticatePasskey(credentials)
    /\ activeCredentialId' = {id}
    /\ LET session == NewSession(id, now)
       IN  /\ stored' = {session}
           /\ sessionTimer' = setupSessionTimer(session, now)
           /\ inactivityTimer' = setupInactivityTimer(session, now)
           /\ sev' = ServiceEvent("authenticate", id, {toSessionState(session)})
    /\ UNCHANGED <<now, credentials, initialized, outside>>

\* PasskeyService.logout(): endSession, then clearActiveCredential.
Logout ==
    /\ EndSessionEffect
    /\ activeCredentialId' = {}
    /\ sev' = ServiceEvent("logout", "", {})
    /\ UNCHANGED <<now, credentials, initialized, outside>>

\* PasskeyService.getSession().
ServiceGetSession ==
    /\ ServiceGetSessionEffect("getSession")
    /\ UNCHANGED <<now, credentials, initialized, outside>>

\* PasskeyService.isAuthenticated(): getSession under another name; it
\* answers true exactly when a session came back, which is what the event
\* holds.
ServiceIsAuthenticated ==
    /\ ServiceGetSessionEffect("isAuthenticated")
    /\ UNCHANGED <<now, credentials, initialized, outside>>

\* PasskeyService.recordActivity().
ServiceRecordActivity ==
    /\ IF stored = {}
       THEN UNCHANGED <<stored, sessionTimer, inactivityTimer, activeCredentialId>>
       ELSE LET session == CHOOSE s \in stored : TRUE
            IN  IF recordActivityOutcome(session, now) = "valid"
                THEN /\ stored' = {updatedSession(session, now)}
                     /\ inactivityTimer' =
                            setupInactivityTimer(updatedSession(session, now), now)
                     /\ UNCHANGED <<sessionTimer, activeCredentialId>>
                ELSE /\ EndSessionEffect
                     /\ handleSessionExpiration
    /\ sev' = ServiceEvent("recordActivity", "", {})
    /\ UNCHANGED <<now, credentials, initialized, outside>>

\* PasskeyService.removeCredential(credentialId): the CredentialStore
\* removes the entry and resets a pointer that named it; the session is not
\* looked at.
ServiceRemoveCredential(id) ==
    /\ IF Len(filtered(credentials, id)) = Len(credentials)
       THEN /\ sev' = ServiceEvent("removeCredential", id, {FALSE})
            /\ UNCHANGED <<credentials, activeCredentialId>>
       ELSE /\ credentials' = filtered(credentials, id)
            /\ activeCredentialId' = pointerAfterRemove(activeCredentialId, id)
            /\ sev' = ServiceEvent("removeCredential", id, {TRUE})
    /\ UNCHANGED <<now, stored, sessionTimer, inactivityTimer, initialized,
                   outside>>

\* A pending timer fires, at or after its due time: endSession, then the
\* callback bound by the service.
ServiceTimerFires(kind) ==
    /\ \E due \in TimerOf(kind) : due <= now
    /\ EndSessionEffect
    /\ handleSessionExpiration
    /\ sev' = ServiceEvent("timer", kind, {})
    /\ UNCHANGED <<now, credentials, initialized, outside>>

ServiceNext ==
    \/ ServiceInitialize
    \/ ServiceDestroy
    \/ \E id \in Credentials : \E userName \in CredentialNames :
            Register(id, userName)
    \/ \E id \in Credentials : Authenticate(id)
    \/ Logout
    \/ ServiceGetSession
    \/ ServiceIsAuthenticated
    \/ ServiceRecordActivity
    \/ \E id \in Credentials : ServiceRemoveCredential(id)
    \/ \E kind \in TimerKinds : ServiceTimerFires(kind)
    \/ Advance

ServiceSpec == Init /\ [][ServiceNext]_vars

----
\* Shorthands over the last operation.

\* The record the operation read.
PreSession == CHOOSE s \in ev.pre : TRUE

\* The operation ran against a persisted record.
HadSession == ev.pre # {}

InactivityExpiry(session) == session.lastActivity + config.inactivityTimeout

TypeOK ==
    /\ now \in 0..MaxTime
    /\ Cardinality(stored) <= 1
    /\ Cardinality(sessionTimer) <= 1
    /\ Cardinality(inactivityTimer) <= 1
    /\ ev.reason \in {"none", "expired", "inactivity"}

----
\* C1: getSession() on a persisted record returns a view exactly when
\* now <= expiresAt and now <= lastActivity + inactivityTimeout (and the view
\* is that of the record); with no record persisted it returns null.
C1_GetSessionValidity ==
    ev.op = "getSession" =>
        /\ ~HadSession => ev.result = NoView
        /\ HadSession =>
              /\ ev.result # NoView <=>
                    /\ ev.at <= PreSession.expiresAt
                    /\ ev.at <= InactivityExpiry(PreSession)
              /\ ev.result # NoView => ev.result = {toSessionState(PreSession)}

\* A read exactly on the inactivity deadline that still returns the view.
C1_Witness ==
    /\ ev.op = "getSession"
    /\ HadSession
    /\ ev.at = InactivityExpiry(PreSession)
    /\ ev.result # NoView

\* C2: whenever getSession() reads a record with now > expiresAt it returns
\* null and the callback fires with "expired", however recent lastActivity is.
C2_AbsoluteDeadlineDominance ==
    (ev.op = "getSession" /\ HadSession /\ ev.at > PreSession.expiresAt) =>
        /\ ev.result = NoView
        /\ ev.reason = "expired"

\* A read past expiresAt of a record whose inactivity window is still open.
C2_Witness ==
    /\ ev.op = "getSession"
    /\ HadSession
    /\ ev.at > PreSession.expiresAt
    /\ ev.at <= InactivityExpiry(PreSession)
    /\ ev.reason = "expired"

\* C3: whenever getSession() reads a record with now <= expiresAt and
\* now > lastActivity + inactivityTimeout it returns null, the record is
\* deleted and the callback fires with "inactivity".
C3_SlidingDeadline ==
    (/\ ev.op = "getSession"
     /\ HadSession
     /\ ev.at <= PreSession.expiresAt
     /\ ev.at > InactivityExpiry(PreSession)) =>
        /\ ev.result = NoView
        /\ stored = {}
        /\ ev.reason = "inactivity"

\* A read that ended a session for inactivity before its absolute deadline.
C3_Witness ==
    /\ ev.op = "getSession"
    /\ HadSession
    /\ ev.at <= PreSession.expiresAt
    /\ ev.at > InactivityExpiry(PreSession)
    /\ stored = {}
    /\ ev.reason = "inactivity"

\* C4: recordActivity() on a record with now > expiresAt deletes the record,
\* cancels both timers and reports "expired"; and getSession() never returns
\* a view later than createdAt + maxSessionDuration of the record it read.
C4_NoResurrection ==
    /\ (ev.op = "recordActivity" /\ HadSession /\ ev.at > PreSession.expiresAt) =>
            /\ stored = {}
            /\ sessionTimer = {}
            /\ inactivityTimer = {}
            /\ ev.reason = "expired"
    /\ (ev.op = "getSession" /\ ev.result # NoView) =>
            ev.at <= PreSession.createdAt + config.maxSessionDuration

\* recordActivity found both deadlines elapsed and ended the session.
C4_Witness ==
    /\ ev.op = "recordActivity"
    /\ HadSession
    /\ ev.at > PreSession.expiresAt
    /\ ev.at > InactivityExpiry(PreSession)
    /\ stored = {}
    /\ ev.reason = "expired"

\* C5: on every detection path, a session ended at a time when both
\* now > expiresAt and now > lastActivity + inactivityTimeout hold is never
\* reported with reason "inactivity".
C5_TieBreak ==
    (/\ ev.op \in {"getSession", "recordActivity", "initialize",
                   "sessionTimer", "inactivityTimer"}
     /\ HadSession
     /\ stored = {}
     /\ ev.at > PreSession.expiresAt
     /\ ev.at > InactivityExpiry(PreSession)) =>
        ev.reason # "inactivity"

\* C6: a timer that ends the session with reason r at time now does so on a
\* record that getSession() at that same now would end with the same r.
C6_TimerAgreesWithRead ==
    (ev.op \in {"sessionTimer", "inactivityTimer"} /\ HadSession) =>
        getSessionOutcome(PreSession, ev.at) = ev.reason

\* C7: a getSession() that finds a record with either deadline elapsed (no
\* timer having ended it, whatever the timers' state) returns null and
\* deletes the record.
C7_LazyRevalidation ==
    (/\ ev.op = "getSession"
     /\ HadSession
     /\ \/ ev.at > PreSession.expiresAt
        \/ ev.at > InactivityExpiry(PreSession)) =>
        /\ ev.result = NoView
        /\ stored = {}

\* A read with no timer installed that ended a session past a deadline.
C7_Witness ==
    /\ ev.op = "getSession"
    /\ HadSession
    /\ ev.preSessionTimer = {}
    /\ ev.preInactivityTimer = {}
    /\ ev.at > InactivityExpiry(PreSession)
    /\ ev.result = NoView
    /\ stored = {}

\* C8: the persisted expiresAt always equals createdAt + maxSessionDuration
\* and lastActivity never exceeds the clock; and from one step to the next,
\* unless startSession replaced the record, expiresAt and createdAt stay the
\* same and lastActivity does not decrease.
C8_SessionFieldsStable ==
    /\ [](\A s \in stored :
            /\ s.expiresAt = s.createdAt + config.maxSessionDuration
            /\ s.lastActivity <= now)
    /\ [][(stored # {} /\ stored' # {} /\ ev'.op # "startSession") =>
            \A s \in stored : \A s2 \in stored' :
                /\ s2.expiresAt = s.expiresAt
                /\ s2.createdAt = s.createdAt
                /\ s2.lastActivity >= s.lastActivity]_vars

\* recordActivity moved lastActivity forward on a live session.
C8_Witness ==
    /\ ev.op = "recordActivity"
    /\ HadSession
    /\ \E s \in stored :
          /\ s.lastActivity > PreSession.lastActivity
          /\ s.expiresAt = PreSession.expiresAt

\* C9: recordActivity() on a record with now <= expiresAt sets lastActivity
\* to now, leaves createdAt, expiresAt and activeCredentialId as they were,
\* schedules the inactivity timer at now + inactivityTimeout and leaves the
\* absolute-expiry timer as it was.
C9_RecordActivityFrame ==
    (ev.op = "recordActivity" /\ HadSession /\ ev.at <= PreSession.expiresAt) =>
        /\ Cardinality(stored) = 1
        /\ \A s \in stored :
              /\ s.lastActivity = ev.at
              /\ s.createdAt = PreSession.createdAt
              /\ s.expiresAt = PreSession.expiresAt
              /\ s.activeCredentialId = PreSession.activeCredentialId
        /\ inactivityTimer = {ev.at + config.inactivityTimeout}
        /\ sessionTimer = ev.preSessionTimer
        /\ ev.reason = "none"

\* recordActivity replaced a pending inactivity timer by a later one while
\* the absolute-expiry timer stayed pending.
C9_Witness ==
    /\ ev.op = "recordActivity"
    /\ HadSession
    /\ ev.at <= PreSession.expiresAt
    /\ ev.preInactivityTimer # {}
    /\ ev.preInactivityTimer # inactivityTimer
    /\ sessionTimer # {}

\* C10 (as stated): after startSession at 0 and recordActivity at 4,
\* getSession at 8 returns a view, and getSession at 31 returns null with
\* reason "expired".
C10_ScenarioAsStated ==
    /\ (scenario = "checked8" /\ ev.op = "getSession") => ev.result # NoView
    /\ (scenario = "checked31" /\ ev.op = "getSession") =>
            /\ ev.result = NoView
            /\ ev.reason = "expired"

\* C10 (amended): after startSession at 0 and recordActivity at 4,
\* getSession at 8 returns a view and the inactivity deadline is 9;
\* getSession at 31 returns null, with reason "expired" when the record is
\* still persisted at that time and with no callback when a timer has
\* already ended the session.
C10_Scenario ==
    /\ (scenario = "checked8" /\ ev.op = "getSession") =>
            /\ ev.result # NoView
            /\ \A s \in stored : InactivityExpiry(s) = 9
    /\ (scenario = "checked31" /\ ev.op = "getSession") =>
            /\ ev.result = NoView
            /\ HadSession => ev.reason = "expired"
            /\ ~HadSession => ev.reason = "none"

\* The read at 31 found the record still persisted and reported "expired".
C10_Witness ==
    /\ scenario = "checked31"
    /\ ev.op = "getSession"
    /\ HadSession
    /\ ev.reason = "expired"

----
\* The record read by the last operation is inside both deadlines.
PreValid ==
    /\ HadSession
    /\ ev.at <= PreSession.expiresAt
    /\ ev.at <= InactivityExpiry(PreSession)

\* C11: getTimeRemaining() returns expiresAt - now (= createdAt +
\* maxSessionDuration - now, hence non-increasing in now within a session)
\* when the record it reads is valid and 0 otherwise; the value lies in
\* [0, maxSessionDuration] and is > 0 at the instant of startSession.
C11_TimeRemaining ==
    ev.op = "getTimeRemaining" =>
        /\ Cardinality(ev.result) = 1
        /\ \A r \in ev.result :
              /\ r \in 0..config.maxSessionDuration
              /\ PreValid =>
                    /\ r = PreSession.expiresAt - ev.at
                    /\ r = PreSession.createdAt + config.maxSessionDuration - ev.at
              /\ ~PreValid => r = 0
              /\ (HadSession /\ PreSession.createdAt = ev.at) => r > 0

\* A positive remaining time read after activity was recorded.
C11_Witness ==
    /\ ev.op = "getTimeRemaining"
    /\ PreValid
    /\ PreSession.lastActivity > PreSession.createdAt
    /\ \E r \in ev.result : r > 0 /\ r < config.maxSessionDuration

\* C12: initialize() on a stored record returns null and deletes the record
\* exactly when getSession() would, and otherwise returns the same view,
\* keeps the record, and leaves the absolute timer scheduled at expiresAt
\* and the inactivity timer at lastActivity + inactivityTimeout.
C12_InitializeAsGetSession ==
    (ev.op = "initialize" /\ HadSession) =>
        /\ getSessionOutcome(PreSession, ev.at) # "valid" =>
              /\ ev.result = NoView
              /\ stored = {}
        /\ getSessionOutcome(PreSession, ev.at) = "valid" =>
              /\ ev.result = {toSessionState(PreSession)}
              /\ stored = ev.pre
              /\ sessionTimer = {PreSession.expiresAt}
              /\ inactivityTimer = {InactivityExpiry(PreSession)}

\* C13: every operation that finds a persisted record and ends it on a
\* deadline (a read, initialize, recordActivity, a timer) invokes the
\* expiration callback.
C13_CallbackOnEveryDetection ==
    (/\ ev.op \in {"getSession", "isAuthenticated", "getTimeRemaining",
                   "initialize", "recordActivity",
                   "sessionTimer", "inactivityTimer"}
     /\ HadSession
     /\ stored = {}) =>
        ev.reason \in {"expired", "inactivity"}

\* C14: endSession() and destroy() never invoke the callback and leave no
\* timer (endSession: no record either); called again right after
\* themselves, or with no record and no timer, they change nothing.
C14_EndDestroyIdempotent ==
    /\ [](ev.op \in {"endSession", "destroy"} =>
            /\ ev.reason = "none"
            /\ sessionTimer = {}
            /\ inactivityTimer = {}
            /\ ev.op = "endSession" => stored = {})
    /\ [][(/\ ev'.op \in {"endSession", "destroy"}
           /\ \/ ev.op = ev'.op
              \/ stored = {} /\ sessionTimer = {} /\ inactivityTimer = {}) =>
            /\ stored' = stored
            /\ sessionTimer' = sessionTimer
            /\ inactivityTimer' = inactivityTimer
            /\ ev'.reason = "none"]_vars

\* endSession called with no record and no timer.
C14_Witness ==
    /\ ev.op = "endSession"
    /\ ~HadSession
    /\ ev.preSessionTimer = {}
    /\ ev.preInactivityTimer = {}
    /\ stored = {}

\* C15: destroy() leaves the persisted record as it was and cancels both
\* timers; initialize() on a manager without timers, run inside both
\* deadlines, returns the view of the persisted record and keeps it.
C15_DestroyKeepsRecord ==
    /\ ev.op = "destroy" =>
            /\ stored = ev.pre
            /\ sessionTimer = {}
            /\ inactivityTimer = {}
    /\ (/\ ev.op = "initialize"
        /\ PreValid
        /\ ev.preSessionTimer = {}
        /\ ev.preInactivityTimer = {}) =>
            /\ ev.result = {toSessionState(PreSession)}
            /\ stored = ev.pre

\* A session restored by initialize() after its timers were cancelled.
C15_Witness ==
    /\ ev.op = "initialize"
    /\ PreValid
    /\ ev.preSessionTimer = {}
    /\ ev.preInactivityTimer = {}
    /\ ev.result # NoView
    /\ \E v \in ev.result : v.lastActivity > PreSession.createdAt

\* C16: at most one record is persisted; startSession(c) at time now leaves
\* exactly the record {now, now + maxSessionDuration, now, c}, one absolute
\* timer due at now + maxSessionDuration, one inactivity timer due at
\* now + inactivityTimeout, and returns the authenticated view of the record.
C16_SingleSession ==
    /\ Cardinality(stored) <= 1
    /\ ev.op = "startSession" =>
          \E c \in Credentials :
              /\ stored = {[createdAt |-> ev.at,
                            expiresAt |-> ev.at + config.maxSessionDuration,
                            lastActivity |-> ev.at,
                            activeCredentialId |-> c]}
              /\ ev.result = {[isAuthenticated |-> TRUE,
                               expiresAt |-> ev.at + config.maxSessionDuration,
                               activeCredentialId |-> c,
                               lastActivity |-> ev.at]}
              /\ sessionTimer = {ev.at + config.maxSessionDuration}
              /\ inactivityTimer = {ev.at + config.inactivityTimeout}

\* startSession replaced an older record of another credential and its
\* pending timers.
C16_Witness ==
    /\ ev.op = "startSession"
    /\ HadSession
    /\ PreSession.createdAt < ev.at
    /\ \A s \in stored : s.activeCredentialId # PreSession.activeCredentialId
    /\ ev.preSessionTimer # {}
    /\ ev.preSessionTimer # sessionTimer
    /\ ev.preInactivityTimer # {}

\* C17: getSession, isAuthenticated, getTimeRemaining and initialize that
\* leave a record persisted leave it as they read it; a record is replaced
\* by a different record only by startSession or recordActivity, and
\* recordActivity changes lastActivity only.
C17_OnlyRecordActivityMutates ==
    /\ []((/\ ev.op \in {"getSession", "isAuthenticated",
                         "getTimeRemaining", "initialize"}
           /\ HadSession
           /\ stored # {}) => stored = ev.pre)
    /\ [][(stored' # stored /\ stored' # {}) =>
            ev'.op \in {"startSession", "recordActivity"}]_vars
    /\ [][(ev'.op = "recordActivity" /\ stored # {} /\ stored' # {}) =>
            \A s \in stored : \A s2 \in stored' :
                s2 = [s EXCEPT !.lastActivity = s2.lastActivity]]_vars

\* A read some time after the last activity that left the record untouched.
C17_Witness ==
    /\ ev.op = "getTimeRemaining"
    /\ HadSession
    /\ stored # {}
    /\ stored = ev.pre
    /\ PreSession.lastActivity < ev.at

----
\* The active pointer is null or references a credential of the collection.
PointerReferencesCredential ==
    \A id \in activeCredentialId : id \in Ids(credentials)

\* C18 (as stated): in every state reachable through CredentialStore
\* operations a non-null active pointer references a credential present in
\* the collection.
C18_ReferentialInvariant == PointerReferencesCredential

\* C18 (amended): every CredentialStore operation other than
\* setActiveCredential(id) with id absent from the collection preserves the
\* referential invariant.
C18_ReferentialPreserved ==
    [][(/\ PointerReferencesCredential
        /\ ~(cev'.op = "setActiveCredential" /\ cev'.id \notin Ids(credentials))) =>
            PointerReferencesCredential']_vars

\* clearAllCredentials ran on a two-credential collection with a valid
\* pointer and left both empty.
C18_Witness ==
    /\ cev.op = "clearAllCredentials"
    /\ Len(cev.preCredentials) = 2
    /\ cev.prePointer # {}
    /\ cev.prePointer \subseteq Ids(cev.preCredentials)
    /\ credentials = <<>>
    /\ activeCredentialId = {}

\* C19 (as stated): removeCredential(id) with id the active pointer clears
\* the pointer, returns true, and getActiveCredentialId() and
\* getActiveCredential() are null afterwards; with id different from the
\* pointer the pointer is unchanged.
C19_ReferentialCleanupAsStated ==
    cev.op = "removeCredential" =>
        /\ cev.prePointer = {cev.id} =>
              /\ activeCredentialId = {}
              /\ getActiveCredential(credentials, activeCredentialId) = {}
              /\ cev.result = {TRUE}
        /\ cev.prePointer # {cev.id} => activeCredentialId = cev.prePointer

\* C19 (amended): the same, for an id that is the active pointer and is in
\* the collection; an id that is not in the collection leaves the pointer
\* unchanged and returns false even when the pointer equals it.
C19_ReferentialCleanup ==
    cev.op = "removeCredential" =>
        /\ (cev.prePointer = {cev.id} /\ cev.id \in Ids(cev.preCredentials)) =>
              /\ activeCredentialId = {}
              /\ getActiveCredential(credentials, activeCredentialId) = {}
              /\ cev.result = {TRUE}
        /\ cev.prePointer # {cev.id} => activeCredentialId = cev.prePointer
        /\ cev.id \notin Ids(cev.preCredentials) =>
              /\ activeCredentialId = cev.prePointer
              /\ cev.result = {FALSE}

\* The active credential was removed while another one stayed.
C19_Witness ==
    /\ cev.op = "removeCredential"
    /\ cev.prePointer = {cev.id}
    /\ cev.id \in Ids(cev.preCredentials)
    /\ cev.result = {TRUE}
    /\ activeCredentialId = {}
    /\ Len(credentials) = 1

\* C20: once removeCredential(id) has persisted the filtered collection,
\* whether it is still running or was stopped by an I/O failure, there is
\* no state in which id is gone from the collection while the active
\* pointer equals id.
C20_RemoveAtomicWithPointer ==
    \A t \in Tasks :
        (/\ task[t].op = "removeCredential"
         /\ task[t].pc \in {"rm_getActive", "rm_clear"}) =>
            ~(/\ activeCredentialId = {task[t].id}
              /\ task[t].id \notin Ids(credentials))

\* C21: saveCredential(c) with an entry of c.id present replaces that entry
\* at its position and keeps the length; otherwise c becomes the last entry;
\* either way every other entry stays where it was, unchanged.
C21_Upsert ==
    cev.op = "saveCredential" =>
        LET c == CHOOSE x \in cev.arg : TRUE
            pre == cev.preCredentials
        IN  IF c.id \in Ids(pre)
            THEN /\ Len(credentials) = Len(pre)
                 /\ \A i \in 1..Len(pre) :
                       credentials[i] = IF pre[i].id = c.id THEN c ELSE pre[i]
            ELSE /\ Len(credentials) = Len(pre) + 1
                 /\ credentials[Len(credentials)] = c
                 /\ \A i \in 1..Len(pre) : credentials[i] = pre[i]

\* The first of two credentials was saved again under a new label.
C21_Witness ==
    /\ cev.op = "saveCredential"
    /\ Len(cev.preCredentials) = 2
    /\ cev.preCredentials[1].id = cev.id
    /\ cev.arg # {cev.preCredentials[1]}
    /\ credentials[1] \in cev.arg
    /\ credentials[2] = cev.preCredentials[2]

\* C23: removeCredential(id) with no entry of that id returns false and
\* leaves the collection and the active pointer as they were, also when the
\* pointer equals id; with an entry of that id it returns true and the
\* collection is the old one without that entry, the rest in order.
C23_RemoveCredential ==
    cev.op = "removeCredential" =>
        LET pre == cev.preCredentials
        IN  IF cev.id \notin Ids(pre)
            THEN /\ cev.result = {FALSE}
                 /\ credentials = pre
                 /\ activeCredentialId = cev.prePointer
            ELSE LET k == CHOOSE i \in 1..Len(pre) : pre[i].id = cev.id
                 IN  /\ cev.result = {TRUE}
                     /\ Len(credentials) = Len(pre) - 1
                     /\ cev.id \notin Ids(credentials)
                     /\ \A i \in 1..Len(credentials) :
                           credentials[i] = pre[IF i < k THEN i ELSE i + 1]

\* An id that is not stored was removed while the pointer dangled on it and
\* another credential was stored.
C23_Witness ==
    /\ cev.op = "removeCredential"
    /\ cev.id \notin Ids(cev.preCredentials)
    /\ cev.prePointer = {cev.id}
    /\ Len(cev.preCredentials) = 1
    /\ cev.result = {FALSE}
    /\ activeCredentialId = {cev.id}

\* C24: setActiveCredential(id) makes id the pointer whether or not a
\* credential of that id is stored and leaves the collection alone;
\* getActiveCredential() returns the stored credential whose id is the
\* pointer, and null when there is no pointer or no credential of that id.
C24_ActivePointer ==
    /\ cev.op = "setActiveCredential" =>
          /\ activeCredentialId = {cev.id}
          /\ credentials = cev.preCredentials
    /\ cev.op = "getActiveCredential" =>
          /\ Cardinality(cev.result) <= 1
          /\ \A c \in cev.result :
                /\ cev.prePointer = {c.id}
                /\ \E i \in 1..Len(cev.preCredentials) : cev.preCredentials[i] = c
          /\ cev.result = {} <=>
                \/ cev.prePointer = {}
                \/ \A id \in cev.prePointer : id \notin Ids(cev.preCredentials)

\* getActiveCredential answered null on a pointer to an id that is not
\* stored, with another credential stored.
C24_Witness ==
    /\ cev.op = "getActiveCredential"
    /\ cev.prePointer # {}
    /\ \A id \in cev.prePointer : id \notin Ids(cev.preCredentials)
    /\ Len(cev.preCredentials) = 1
    /\ cev.result = {}

\* C25: after clearAllCredentials(), whatever was stored, the collection is
\* empty and the pointer is cleared: getAllCredentials() returns the empty
\* list, hasCredentials() false and getActiveCredentialId() null.
C25_ClearAll ==
    /\ [](cev.op = "clearAllCredentials" =>
            /\ credentials = <<>>
            /\ ~hasCredentials(credentials)
            /\ activeCredentialId = {})
    /\ [][cev.op = "clearAllCredentials" =>
            /\ cev'.op = "getAllCredentials" => cev'.result = {<<>>}
            /\ cev'.op = "hasCredentials" => cev'.result = {FALSE}
            /\ cev'.op = "getActiveCredentialId" => cev'.result = {}]_vars

\* Two credentials and a pointer were cleared at once.
C25_Witness ==
    /\ cev.op = "clearAllCredentials"
    /\ Len(cev.preCredentials) = 2
    /\ cev.prePointer # {}
    /\ credentials = <<>>
    /\ activeCredentialId = {}

\* C22: whatever calls of saveCredential, removeCredential and
\* clearAllCredentials have run or are suspended at a storage call, no two
\* entries of the persisted collection have the same id.
C22_UniqueIds ==
    \A i, j \in 1..Len(credentials) :
        i # j => credentials[i].id # credentials[j].id

\* Both callers' last calls saved cred-1, and one of the two writes was made
\* from a collection read before cred-2 and the other cred-1 were persisted:
\* it dropped cred-2 and left a single cred-1.
C22_Witness ==
    /\ \A t \in Tasks :
          /\ task[t].op = "saveCredential"
          /\ task[t].status = "done"
          /\ task[t].id = "cred-1"
    /\ \E t \in Tasks : task[t].dropped = {"cred-2"}
    /\ Ids(credentials) = {"cred-1"}

\* C26: the write of a saveCredential call persists the collection the call
\* read with its own credential put in, whatever another caller persisted
\* since: an entry of another id persisted after the read is gone after the
\* write, and the writer's credential is there.
C26_LastWriteWins ==
    [][\A t \in Tasks :
          (/\ Running(t, "saveCredential", "save_write")
           /\ task'[t].status = "done") =>
              /\ Ids(credentials') = Ids(task[t].read) \cup {task[t].id}
              /\ \E i \in 1..Len(credentials') : credentials'[i] \in task[t].arg
              /\ \A id \in Ids(credentials) \ Ids(task[t].read) :
                    id # task[t].id => id \notin Ids(credentials')]_vars

\* Two saves of different ids both read the empty collection; the later
\* write dropped the credential the other call had persisted.
C26_Witness ==
    \E t, u \in Tasks :
        /\ t # u
        /\ task[t].op = "saveCredential" /\ task[t].status = "done"
        /\ task[u].op = "saveCredential" /\ task[u].status = "done"
        /\ task[t].id # task[u].id
        /\ task[t].dropped = {task[u].id}
        /\ task[u].dropped = {}
        /\ Ids(credentials) = {task[t].id}

\* A value JSON represents exactly: not undefined, and no NaN in it.
JsonRepresentable(v) ==
    /\ v.kind # "undefined"
    /\ v.kind = "number" => v.repr \in Numerals
    /\ v.kind = "object" =>
          (v.data.kind = "number" => v.data.repr \in Numerals)

\* The record does not decode: one of its fields is not base64.
RecordMalformed(r) ==
    ~r.ciphertext.valid \/ ~r.iv.valid \/ ~r.salt.valid

\* The record decodes and was sealed under another key or iv than the ones
\* the secret and the record give.
AuthenticationFails(r, secret) ==
    /\ ~RecordMalformed(r)
    /\ \/ r.ciphertext.bytes[1].key # deriveKey(secret, r.salt.bytes)
       \/ r.ciphertext.bytes[1].iv # r.iv.bytes

\* The record opens under the secret and its plaintext is not a JSON text.
DeserializationFails(r, secret) ==
    /\ ~RecordMalformed(r)
    /\ ~AuthenticationFails(r, secret)
    /\ parse(uint8ArrayToString(r.ciphertext.bytes[1].data)) = {}

\* C27: after set(key, v) has stored, the wrapped store holds under key a
\* record of the three base64 fields ciphertext, iv and salt, not v; and a
\* get(key) that follows with the secret provider returning the same secret
\* (and the wrapped store answering) returns v, for every value v that JSON
\* represents.
C27_RoundTrip ==
    /\ [](eev.op = "set" /\ eev.thrown = "none" =>
            /\ inner[eev.key] # {}
            /\ \A r \in inner[eev.key] :
                  /\ DOMAIN r = {"ciphertext", "iv", "salt"}
                  /\ ~RecordMalformed(r)
                  /\ r \notin eev.value)
    /\ [][(/\ eev.op = "set" /\ eev.thrown = "none"
           /\ \A v \in eev.value : JsonRepresentable(v)
           /\ eev'.op = "get" /\ eev'.key = eev.key
           /\ eev'.secret = eev.secret
           /\ eev'.thrown = "none") =>
              eev'.result \in eev.value]_vars

\* get returned the object that was stored encrypted.
C27_Witness ==
    /\ eev.op = "get"
    /\ eev.thrown = "none"
    /\ eev.result = Obj(Num("1"))
    /\ \E r \in inner[eev.key] : ~RecordMalformed(r)

\* C28: a get(key) that follows a set(key, v) made under secret s1, with the
\* provider now returning another secret s2 and the wrapped store
\* answering, returns null without throwing and leaves the record in place.
C28_WrongSecret ==
    [][(/\ eev.op = "set" /\ eev.thrown = "none"
        /\ eev'.op = "get" /\ eev'.key = eev.key
        /\ eev'.secret \in Secrets \ {eev.secret}
        /\ eev'.thrown # "io") =>
            /\ eev'.result = Null
            /\ eev'.thrown = "none"
            /\ inner' = inner
            /\ inner'[eev.key] # {}]_vars

\* get answered null on a record that holds an object sealed under the
\* other secret.
C28_Witness ==
    /\ eev.op = "get"
    /\ eev.thrown = "none"
    /\ eev.result = Null
    /\ eev.secret \in Secrets
    /\ \E r \in inner[eev.key] :
          /\ ~RecordMalformed(r)
          /\ r.ciphertext.bytes[1].key.password \in Secrets \ {eev.secret}
          /\ parse(uint8ArrayToString(r.ciphertext.bytes[1].data))
                = {Obj(Num("1"))}

\* C29: get throws only when the wrapped store's get rejects; with the key
\* absent, the record malformed, the authentication failing or the
\* plaintext not deserialising it returns the same null.
C29_GetFailClosed ==
    eev.op = "get" =>
        /\ eev.thrown \in {"none", "io"}
        /\ (/\ eev.thrown = "none"
            /\ \/ inner[eev.key] = {}
               \/ \E r \in inner[eev.key] :
                     \/ RecordMalformed(r)
                     \/ AuthenticationFails(r, eev.secret)
                     \/ DeserializationFails(r, eev.secret)) =>
              eev.result = Null

\* get answered null on a record that opens under the secret and holds the
\* empty text (undefined was stored).
C29_Witness ==
    /\ eev.op = "get"
    /\ eev.thrown = "none"
    /\ eev.result = Null
    /\ \E r \in inner[eev.key] : DeserializationFails(r, eev.secret)

\* C30: no call of the EncryptedStorageAdapter ends with an exception other
\* than a rejection of the wrapped store.
C30_OnlyIoFailuresEscape ==
    eev.thrown \in {"none", "io"}

\* C31 as stated: every get and every set invokes the secretProvider
\* exactly once; every set draws one salt and one iv and calls the wrapped
\* store's set once; remove and clear never invoke the secretProvider and
\* call the wrapped store's remove, respectively clear, once.
C31_CallCountsAsStated ==
    /\ eev.op \in {"get", "set"} => eev.calls.secretProvider = 1
    /\ eev.op = "set" =>
          eev.calls.salt = 1 /\ eev.calls.iv = 1 /\ eev.calls.set = 1
    /\ eev.op = "remove" =>
          eev.calls.secretProvider = 0 /\ eev.calls.remove = 1
    /\ eev.op = "clear" =>
          eev.calls.secretProvider = 0 /\ eev.calls.clear = 1

\* C31: get calls the wrapped store's get once and invokes the
\* secretProvider once when that get answered a record, not at all when it
\* answered nothing or rejected; set invokes the secretProvider once and,
\* when the secret was returned, draws one salt and one iv and calls the
\* wrapped store's set once, and does none of these when the provider threw;
\* remove and clear never invoke the secretProvider and call the wrapped
\* store's remove, respectively clear, once; no call does anything else.
C31_CallCounts ==
    /\ eev.op = "get" =>
          eev.calls = [NoCalls EXCEPT
                          !.get = 1,
                          !.secretProvider =
                              IF eev.thrown = "io" \/ inner[eev.key] = {}
                              THEN 0 ELSE 1]
    /\ eev.op = "set" =>
          eev.calls = IF eev.thrown = "secret-provider"
                      THEN [NoCalls EXCEPT !.secretProvider = 1]
                      ELSE [NoCalls EXCEPT !.secretProvider = 1, !.salt = 1,
                                           !.iv = 1, !.set = 1]
    /\ eev.op = "remove" => eev.calls = [NoCalls EXCEPT !.remove = 1]
    /\ eev.op = "clear" => eev.calls = [NoCalls EXCEPT !.clear = 1]

\* get on a key under which nothing is stored returned null without asking
\* for the secret.
C31_Witness ==
    /\ eev.op = "get"
    /\ eev.thrown = "none"
    /\ inner[eev.key] = {}
    /\ eev.calls.get = 1
    /\ eev.calls.secretProvider = 0

\* C36: a recordActivity() that runs on a persisted session whose inactivity
\* deadline has elapsed does not extend it: no session valid at that instant
\* is persisted afterwards, so that a getSession() then returns null.
C36_NoRevivalAfterInactivity ==
    (/\ ev.op = "recordActivity"
     /\ HadSession
     /\ ev.at > InactivityExpiry(PreSession)) =>
        \A session \in stored : getSessionOutcome(session, ev.at) # "valid"

\* C37: after destroy(), a getSession(), isAuthenticated(),
\* getTimeRemaining() or recordActivity() leaves no timer pending, and no
\* timer fires.
C37_DestroyStopsTimers ==
    [][ev.op = "destroy" =>
          /\ ev'.op \notin {"sessionTimer", "inactivityTimer"}
          /\ ev'.op \in {"getSession", "isAuthenticated", "getTimeRemaining",
                         "recordActivity"} =>
                sessionTimer' = {} /\ inactivityTimer' = {}]_vars

\* C33: the expiration callback is invoked at most once per started session,
\* whatever the interleaving of the timers with the calls in flight: while
\* only one session has ever been started, at most one notification has
\* been made.
C33_NotifiedAtMostOnce ==
    obs.starts = 1 => obs.notified <= 1

\* C34: once the session has been ended, and until the next startSession,
\* no session record is persisted and no timer is pending when every call
\* in flight has returned.
C34_EndedStaysEnded ==
    (obs.ended /\ Quiescent) =>
        /\ stored = {}
        /\ sessionTimer = {}
        /\ inactivityTimer = {}

\* C35: after startSession(B) has completed, and until the next startSession
\* or end of session, the persisted record carries B and the deadline that
\* call computed.
C35_StartedSessionPersists ==
    \A started \in obs.current :
        /\ stored # {}
        /\ \A session \in stored :
              /\ session.activeCredentialId = started.activeCredentialId
              /\ session.expiresAt = started.expiresAt

\* C38: whenever a timer is pending, a session record is persisted: when
\* every call in flight has returned, no timer is armed over an absent
\* record.
C38_TimerImpliesRecord ==
    (Quiescent /\ (sessionTimer # {} \/ inactivityTimer # {})) => stored # {}

\* C39: under PasskeyService, whenever a session has ended, for whatever
\* reason, the active-credential pointer is cleared once the operation has
\* completed: no state between two calls has no persisted session and an
\* active pointer.
C39_PointerClearedWithSession ==
    stored = {} => activeCredentialId = {}

\* C40: under PasskeyService, whenever getSession() returns a valid session,
\* its activeCredentialId equals the active pointer of the CredentialStore
\* and names a credential of the collection.
C40_SessionCredentialExists ==
    sev.op = "getSession" =>
        \A session \in sev.result :
            /\ activeCredentialId = {session.activeCredentialId}
            /\ session.activeCredentialId \in Ids(credentials)

====
